---- MODULE Spec2Model ----
(***************************************************************************)
(* Model of judgers-core and judgers-cli.                                  *)
(*                                                                         *)
(* Spec         the three allocators of allocate.rs, RandomFairAllocator,  *)
(*              SequenceFairAllocator and PresentationAllocator, each run  *)
(*              of allocate() unrolled into the steps of its loops.        *)
(* SpecFromStr  the same, with the allocator built by from_str from a key. *)
(* SpecValidate Input::validate of input.rs.                               *)
(* SpecTime     Time::new, to_minutes and from_minutes of time.rs.         *)
(* SpecSheet    the schedule loop of Spreadsheet::write_judge_sheet.       *)
(* SpecScore    StackRankScorer::score of scoring.rs.                      *)
(* SpecScoreOutput  the same machine, for the properties of its output.    *)
(* SpecTable    ScoreTable::add of scoring.rs, call after call.            *)
(* SpecAgain    allocate() and score() called twice on one instance.       *)
(* SpecCli      the commands of judgers-cli: cli::run, handle_allocate     *)
(*              and handle_spreadsheet, each followed by its allocator.    *)
(*                                                                         *)
(* Every specification leaves the variables of the other components at    *)
(* their idle value.                                                       *)
(*                                                                         *)
(* Indices i, j and the drawn index are 0-based as in the source; TLA+     *)
(* sequences are 1-based, so the element at source index n is seq[n + 1].  *)
(***************************************************************************)
EXTENDS Integers, Sequences, FiniteSets, TLC

VARIABLES
  strategy,          \* which allocator the instance is
  judges,            \* self.judges
  projects,          \* self.projects
  judge_amount_min,  \* self.config.judge_amount_min
  pc,                \* position inside allocate()
  allocations,       \* the local Vec<Allocation> being built
  i,                 \* outer loop position (project in RandomFair, judge otherwise)
  j,                 \* inner loop counter of SequenceFair
  judges_allocated,  \* per-project counter of RandomFair
  result,            \* what allocate() returned
  allocator,         \* the key given to <dyn Allocator>::from_str
  rank_weights,           \* StackRankScorer.rank_weights
  judge_stack_decisions,  \* StackRankScorer.judge_stack_decisions
  config,                 \* StackRankScorer.config: order and mode
  results,                \* the local ScoreTable of score()
  scores,                 \* the local Scores of score(), before sorting
  time,              \* a Time value
  total,             \* a u32 count of minutes
  origin,            \* the value a chain of Time conversions started from
  sheet_config,      \* SpreadsheetConfig: judge_time and start_time
  current_minutes,   \* the local current_minutes of write_judge_sheet
  worksheet,         \* the Time column written so far, one string per row
  overflow_checks,   \* whether the build checks integer overflow
  command,           \* the subcommand the CLI was started with
  workbook,          \* whether Spreadsheet::from_allocations was run
  calls,             \* the add calls made on a ScoreTable, in order
  previous           \* the result of an earlier call on the same instance

keyVars == <<allocator>>

scoreVars == <<rank_weights, judge_stack_decisions, config, results, scores>>

timeVars == <<time, total, origin>>

sheetVars == <<sheet_config, current_minutes, worksheet, overflow_checks>>

callVars == <<command, workbook, calls, previous>>

vars == <<strategy, judges, projects, judge_amount_min, pc, allocations, i, j,
          judges_allocated, result, keyVars, callVars, scoreVars, timeVars, sheetVars>>

\* The value of a variable that the specification at hand does not use.
Unused == "unused"

KeyIdle == allocator = Unused

ScoreIdle ==
  /\ rank_weights = Unused
  /\ judge_stack_decisions = Unused
  /\ config = Unused
  /\ results = Unused
  /\ scores = Unused

TimeIdle ==
  /\ time = Unused
  /\ total = Unused
  /\ origin = Unused

SheetIdle ==
  /\ sheet_config = Unused
  /\ current_minutes = Unused
  /\ worksheet = Unused
  /\ overflow_checks = Unused

\* previous is a result: before a second call it is the result of no call.
CallIdle ==
  /\ command = Unused
  /\ workbook = Unused
  /\ calls = Unused
  /\ previous = [kind |-> "None"]

----------------------------------------------------------------------------
(* Bounds of the model.                                                    *)

MaxJudges == 3

MaxProjects == 3

\* judge_amount_min ranges over 0 .. MaxJudges + 1, so that it can exceed
\* every judge count of the model.
MaxAmount == MaxJudges + 1

----------------------------------------------------------------------------
(* Entities.                                                               *)

\* judge.rs: a judge is (id, name).
Judge(id, name) == [id |-> id, name |-> name]

\* project.rs: a project is (id, name); table_number is None after
\* Project::new and takes no part in equality.
Project(id, name) == [id |-> id, name |-> name]

\* impl PartialEq for Project: equal ids and equal names.
ProjectEq(a, b) == a.id = b.id /\ a.name = b.name

\* Two judges, in either order and with repetition.
JudgePool == {Judge(1, "J1"), Judge(2, "J2")}

\* One project per id, plus a second project that shares id 1 under
\* another name (equal id, yet unequal under PartialEq).
ProjectPool ==
  {Project(n, "P") : n \in 1..MaxProjects} \cup {Project(1, "Q")}

SeqsUpTo(S, n) == UNION {[1..m -> S] : m \in 0..n}

\* The allocators only compare projects for equality, so a project list is
\* taken up to renaming of ids: ids are numbered by first occurrence.
FirstOccurrenceOrder(ps) ==
  \A n \in 1..Len(ps) :
    \/ ps[n].id = 1
    \/ \E m \in 1..(n - 1) : ps[m].id = ps[n].id \/ ps[m].id = ps[n].id - 1

ProjectLists ==
  {ps \in SeqsUpTo(ProjectPool, MaxProjects) : FirstOccurrenceOrder(ps)}

Strategies == {"random", "sequence", "presentation"}

----------------------------------------------------------------------------
(* Helpers of the allocators.                                              *)

\* Allocation::new
AllocationNew(judge, ps) == [judge |-> judge, projects |-> ps]

\* Ok(Allocations::new(allocations))
Ok(allocs) == [kind |-> "Ok", allocations |-> allocs]

Err(kind) == [kind |-> kind]

ErrNotEnoughJudges(jc, pc_, k) ==
  [kind |-> "ErrNotEnoughJudges", judge_count |-> jc, project_count |-> pc_,
   judge_amount_min |-> k]

NoResult == [kind |-> "None"]

\* The two errors returned before the allocations vector is built.
EmptyInput == {"ErrNoJudges", "ErrNoProjects"}

\* Vec::contains, by PartialEq.
ContainsNever(list, p) == FALSE

Contains(list, p) == \E n \in 1..Len(list) : ProjectEq(list[n], p)

----------------------------------------------------------------------------
(* Construction: RandomFairAllocator::new, SequenceFairAllocator::new and  *)
(* PresentationAllocator::new store config, judges and projects as given.  *)
(* No constructor validates anything.                                      *)

Init ==
  /\ strategy \in Strategies
  /\ judges \in SeqsUpTo(JudgePool, MaxJudges)
  /\ projects \in ProjectLists
  /\ judge_amount_min \in 0..MaxAmount
  /\ pc = "start"
  /\ allocations = <<>>
  /\ i = 0
  /\ j = 0
  /\ judges_allocated = 0
  /\ result = NoResult
  /\ KeyIdle
  /\ CallIdle
  /\ ScoreIdle
  /\ TimeIdle
  /\ SheetIdle

\* The fields of the instance: allocate(&self) never writes them (nor
\* anything of the other components).
UnchangedSelf ==
  UNCHANGED <<strategy, judges, projects, judge_amount_min,
              keyVars, callVars, scoreVars, timeVars, sheetVars>>

Return(r) ==
  /\ result' = r
  /\ pc' = "done"

----------------------------------------------------------------------------
(* RandomFairAllocator::allocate                                           *)

\* The three early returns, in source order; "pass" when none is taken.
\* (judges.len() as u32 is judges.len() for every length below 2^32.)
RandomPrecheckSwapped(js, ps, k) ==
  IF Len(ps) = 0 THEN Err("ErrNoProjects")
  ELSE IF Len(js) = 0 THEN Err("ErrNoJudges")
  ELSE IF k > Len(js) THEN ErrNotEnoughJudges(Len(js), Len(ps), k)
  ELSE Err("pass")

RandomPrecheck(js, ps, k) ==
  IF Len(js) = 0 THEN Err("ErrNoJudges")
  ELSE IF Len(ps) = 0 THEN Err("ErrNoProjects")
  ELSE IF k > Len(js) THEN ErrNotEnoughJudges(Len(js), Len(ps), k)
  ELSE Err("pass")

\* for judge in &self.judges { allocations.push(Allocation::new(judge.clone(), Vec::new())) }
RandomPushJudgesReversed(js) ==
  [n \in 1..Len(js) |-> AllocationNew(js[Len(js) + 1 - n], <<>>)]

RandomPushJudges(js) == [n \in 1..Len(js) |-> AllocationNew(js[n], <<>>)]

\* allocation.projects.push(project.clone()) on allocations[index]
PushProjectFront(allocs, index, p) ==
  [allocs EXCEPT ![index + 1].projects = <<p>> \o @]

PushProject(allocs, index, p) ==
  [allocs EXCEPT ![index + 1].projects = Append(@, p)]

\* Entry of allocate(): the checks, and between the second and the third the
\* construction of one empty allocation per judge.
RandomFairAllocate ==
  /\ pc = "start"
  /\ strategy = "random"
  /\ LET check == RandomPrecheck(judges, projects, judge_amount_min) IN
       /\ allocations' = IF check.kind \in EmptyInput
                            THEN allocations
                            ELSE RandomPushJudges(judges)
       /\ IF check.kind # "pass"
            THEN Return(check)
            ELSE /\ pc' = "random_project"
                 /\ UNCHANGED result
  /\ i' = 0
  /\ judges_allocated' = 0
  /\ UNCHANGED j
  /\ UnchangedSelf

\* for project in &self.projects { let mut judges_allocated = 0; ...
RandomProject ==
  /\ pc = "random_project"
  /\ i < Len(projects)
  /\ judges_allocated' = 0
  /\ pc' = "random_while"
  /\ UNCHANGED <<allocations, i, j, result>>
  /\ UnchangedSelf

\* One iteration of the while loop: draw an index; retry when that judge
\* already holds the project, else push it and count it.
RandomDraw ==
  /\ pc = "random_while"
  /\ judges_allocated < judge_amount_min
  /\ \E index \in 0..(Len(allocations) - 1) :
       IF Contains(allocations[index + 1].projects, projects[i + 1])
         THEN UNCHANGED <<allocations, judges_allocated>>
         ELSE /\ allocations' = PushProject(allocations, index, projects[i + 1])
              /\ judges_allocated' = judges_allocated + 1
  /\ UNCHANGED <<pc, i, j, result>>
  /\ UnchangedSelf

\* The while condition fails: on to the next project.
RandomProjectDone ==
  /\ pc = "random_while"
  /\ ~(judges_allocated < judge_amount_min)
  /\ i' = i + 1
  /\ pc' = "random_project"
  /\ UNCHANGED <<allocations, j, judges_allocated, result>>
  /\ UnchangedSelf

\* Ok(Allocations::new(allocations))
RandomReturn ==
  /\ pc = "random_project"
  /\ ~(i < Len(projects))
  /\ Return(Ok(allocations))
  /\ UNCHANGED <<allocations, i, j, judges_allocated>>
  /\ UnchangedSelf

RandomFair ==
  \/ RandomFairAllocate
  \/ RandomProject
  \/ RandomDraw
  \/ RandomProjectDone
  \/ RandomReturn

----------------------------------------------------------------------------
(* SequenceFairAllocator::allocate                                         *)

\* The three early returns, in source order; "pass" when none is taken.
SequencePrecheck(js, ps, k) ==
  IF Len(js) = 0 THEN Err("ErrNoJudges")
  ELSE IF Len(ps) = 0 THEN Err("ErrNoProjects")
  ELSE IF k > Len(js) THEN ErrNotEnoughJudges(Len(js), Len(ps), k)
  ELSE Err("pass")

SequencePushJudges(js) == [n \in 1..Len(js) |-> AllocationNew(js[n], <<>>)]

\* ((num_projects * judges_per_project) as f64 / num_judges as f64).ceil() as usize
\* The quotient of two integers below 2^53 is rounded correctly, so its
\* ceiling is the integer ceiling.
ProjectsPerJudgeFloor(num_projects, judges_per_project, num_judges) ==
  (num_projects * judges_per_project) \div num_judges

ProjectsPerJudgeAtLeastOne(num_projects, judges_per_project, num_judges) ==
  LET n == (num_projects * judges_per_project + num_judges - 1) \div num_judges
  IN  IF n = 0 THEN 1 ELSE n

ProjectsPerJudge(num_projects, judges_per_project, num_judges) ==
  (num_projects * judges_per_project + num_judges - 1) \div num_judges

\* let start_offset = (i * num_projects) / num_judges;
StartOffsetZero(n, num_projects, num_judges) == 0

StartOffsetIndex(n, num_projects, num_judges) == n

StartOffset(n, num_projects, num_judges) == (n * num_projects) \div num_judges

num_judges == Len(judges)

num_projects == Len(projects)

projects_per_judge == ProjectsPerJudge(num_projects, judge_amount_min, num_judges)

SequenceFairAllocate ==
  /\ pc = "start"
  /\ strategy = "sequence"
  /\ LET check == SequencePrecheck(judges, projects, judge_amount_min) IN
       /\ allocations' = IF check.kind \in EmptyInput
                            THEN allocations
                            ELSE SequencePushJudges(judges)
       /\ IF check.kind # "pass"
            THEN Return(check)
            ELSE /\ pc' = "sequence_judge"
                 /\ UNCHANGED result
  /\ i' = 0
  /\ j' = 0
  /\ UNCHANGED judges_allocated
  /\ UnchangedSelf

\* for (i, allocation) in allocations.iter_mut().enumerate() { ... for j in 0..projects_per_judge
SequenceJudge ==
  /\ pc = "sequence_judge"
  /\ i < Len(allocations)
  /\ j' = 0
  /\ pc' = "sequence_project"
  /\ UNCHANGED <<allocations, i, judges_allocated, result>>
  /\ UnchangedSelf

\* One iteration of the inner loop.
SequenceProject ==
  /\ pc = "sequence_project"
  /\ j < projects_per_judge
  /\ LET start_offset == StartOffset(i, num_projects, num_judges)
         project_idx == (start_offset + j) % num_projects
     IN  allocations' = IF j < num_projects
                          THEN PushProject(allocations, i, projects[project_idx + 1])
                          ELSE allocations
  /\ j' = j + 1
  /\ UNCHANGED <<pc, i, judges_allocated, result>>
  /\ UnchangedSelf

\* The inner loop is exhausted: on to the next judge.
SequenceJudgeDone ==
  /\ pc = "sequence_project"
  /\ ~(j < projects_per_judge)
  /\ i' = i + 1
  /\ pc' = "sequence_judge"
  /\ UNCHANGED <<allocations, j, judges_allocated, result>>
  /\ UnchangedSelf

SequenceReturn ==
  /\ pc = "sequence_judge"
  /\ ~(i < Len(allocations))
  /\ Return(Ok(allocations))
  /\ UNCHANGED <<allocations, i, j, judges_allocated>>
  /\ UnchangedSelf

SequenceFair ==
  \/ SequenceFairAllocate
  \/ SequenceJudge
  \/ SequenceProject
  \/ SequenceJudgeDone
  \/ SequenceReturn

----------------------------------------------------------------------------
(* PresentationAllocator::allocate                                         *)

PresentationPushJudges(js) == [n \in 1..Len(js) |-> AllocationNew(js[n], <<>>)]

\* self.projects.clone()
PresentationProjectsMin(ps, k) ==
  SubSeq(ps, 1, IF k < Len(ps) THEN k ELSE Len(ps))

PresentationProjects(ps, k) == ps

\* Ok(Allocations::new(allocations)), the only return of the function.
PresentationResultChecked(allocs) ==
  IF Len(allocs) = 0 THEN Err("ErrNoJudges") ELSE Ok(allocs)

PresentationResult(allocs) == Ok(allocs)

PresentationAllocate ==
  /\ pc = "start"
  /\ strategy = "presentation"
  /\ allocations' = PresentationPushJudges(judges)
  /\ i' = 0
  /\ pc' = "presentation_assign"
  /\ UNCHANGED <<j, judges_allocated, result>>
  /\ UnchangedSelf

\* for allocation in &mut allocations { allocation.projects = self.projects.clone(); }
PresentationAssign ==
  /\ pc = "presentation_assign"
  /\ i < Len(allocations)
  /\ allocations' =
       [allocations EXCEPT ![i + 1].projects =
          PresentationProjects(projects, judge_amount_min)]
  /\ i' = i + 1
  /\ UNCHANGED <<pc, j, judges_allocated, result>>
  /\ UnchangedSelf

PresentationReturn ==
  /\ pc = "presentation_assign"
  /\ ~(i < Len(allocations))
  /\ Return(PresentationResult(allocations))
  /\ UNCHANGED <<allocations, i, j, judges_allocated>>
  /\ UnchangedSelf

Presentation ==
  \/ PresentationAllocate
  \/ PresentationAssign
  \/ PresentationReturn

----------------------------------------------------------------------------

Next ==
  \/ RandomFair
  \/ SequenceFair
  \/ Presentation

Spec == Init /\ [][Next]_vars

----------------------------------------------------------------------------
(* <dyn Allocator>::from_str                                               *)

\* The three keys of the match, and two that it does not name.
Keys == {"random", "sequence", "presentation", "", "Sequence"}

\* n judges with pairwise-distinct ids.
JudgeRoster(n) == [m \in 1..n |-> Judge(m, "J")]

\* The match of from_str: which allocator the key builds.
FromStrUnknownIsSequence(key) ==
  CASE key = "random" -> "random"
    [] key = "sequence" -> "sequence"
    [] key = "presentation" -> "presentation"
    [] OTHER -> "sequence"

FromStr(key) ==
  CASE key = "random" -> "random"
    [] key = "sequence" -> "sequence"
    [] key = "presentation" -> "presentation"
    [] OTHER -> "random"

InitFromStr ==
  /\ allocator \in Keys
  /\ strategy = Unused
  /\ judges \in {JudgeRoster(n) : n \in 0..MaxJudges}
  /\ projects \in ProjectLists
  /\ judge_amount_min \in 0..MaxAmount
  /\ pc = "from_str"
  /\ allocations = <<>>
  /\ i = 0
  /\ j = 0
  /\ judges_allocated = 0
  /\ result = NoResult
  /\ CallIdle
  /\ ScoreIdle
  /\ TimeIdle
  /\ SheetIdle

\* from_str hands config, judges and projects to the constructor it picks.
AllocatorFromStr ==
  /\ pc = "from_str"
  /\ strategy' = FromStr(allocator)
  /\ pc' = "start"
  /\ UNCHANGED <<judges, projects, judge_amount_min, allocations, i, j,
                 judges_allocated, result, keyVars, callVars, scoreVars, timeVars,
                 sheetVars>>

NextFromStr ==
  \/ AllocatorFromStr
  \/ Next

SpecFromStr == InitFromStr /\ [][NextFromStr]_vars

----------------------------------------------------------------------------
(* Input::validate (input.rs), Judge::validate (judge.rs) and             *)
(* Project::validate (project.rs).  Here a string is the sequence of its   *)
(* characters, so that trim() is computed.                                 *)

MaxInput == 2

\* char::is_whitespace, on the characters of the model.
IsWhitespace(c) == c \in {" ", "\t"}

RECURSIVE TrimStart(_)
TrimStart(str) ==
  IF Len(str) > 0 /\ IsWhitespace(Head(str)) THEN TrimStart(Tail(str)) ELSE str

RECURSIVE TrimEnd(_)
TrimEnd(str) ==
  IF Len(str) > 0 /\ IsWhitespace(str[Len(str)])
    THEN TrimEnd(SubSeq(str, 1, Len(str) - 1))
    ELSE str

\* str::trim
Trim(str) == TrimEnd(TrimStart(str))

\* str::is_empty
IsEmpty(str) == Len(str) = 0

\* Ok(())
OkUnit == [kind |-> "Ok"]

\* An error that carries the offending string.
ErrWith(kind, str) == [kind |-> kind, value |-> str]

\* impl Validate for Judge
JudgeValidateNameFirst(judge) ==
  IF IsEmpty(Trim(judge.name)) THEN ErrWith("ErrInvalidJudgeName", judge.name)
  ELSE IF IsEmpty(Trim(judge.id)) THEN ErrWith("ErrInvalidJudgeId", judge.id)
  ELSE OkUnit

JudgeValidate(judge) ==
  IF IsEmpty(Trim(judge.id)) THEN ErrWith("ErrInvalidJudgeId", judge.id)
  ELSE IF IsEmpty(Trim(judge.name)) THEN ErrWith("ErrInvalidJudgeName", judge.name)
  ELSE OkUnit

\* impl Validate for Project
ProjectValidate(project) ==
  IF IsEmpty(Trim(project.id)) THEN ErrWith("ErrInvalidProjectId", project.id)
  ELSE IF IsEmpty(Trim(project.name))
    THEN ErrWith("ErrInvalidProjectName", project.name)
  ELSE OkUnit

\* for judge in &self.judges { judge.validate()?; }
RECURSIVE ValidateJudges(_)
ValidateJudges(js) ==
  IF Len(js) = 0 THEN OkUnit
  ELSE IF JudgeValidate(Head(js)).kind # "Ok" THEN JudgeValidate(Head(js))
  ELSE ValidateJudges(Tail(js))

\* for project in &self.projects { project.validate()?; }
RECURSIVE ValidateProjects(_)
ValidateProjects(ps) ==
  IF Len(ps) = 0 THEN OkUnit
  ELSE IF ProjectValidate(Head(ps)).kind # "Ok" THEN ProjectValidate(Head(ps))
  ELSE ValidateProjects(Tail(ps))

\* ids.len() != the length of the HashSet collected from ids
DuplicateIds(list) ==
  Len(list) # Cardinality({list[n].id : n \in 1..Len(list)})

\* impl Validate for Input
InputValidate(js, ps) ==
  IF Len(js) = 0 THEN Err("ErrNoJudges")
  ELSE IF Len(ps) = 0 THEN Err("ErrNoProjects")
  ELSE IF ValidateJudges(js).kind # "Ok" THEN ValidateJudges(js)
  ELSE IF DuplicateIds(js) THEN Err("ErrDuplicateJudgeIds")
  ELSE IF ValidateProjects(ps).kind # "Ok" THEN ValidateProjects(ps)
  ELSE IF DuplicateIds(ps) THEN Err("ErrDuplicateProjectIds")
  ELSE OkUnit

\* Strings for ids and names: empty, blank, two plain ones, and one that
\* trim() shortens without emptying it.
InputIds == {<<>>, <<" ">>, <<"a">>, <<"b">>}

InputNames == {<<"\t", " ">>, <<" ", "n">>}

InputJudges == {Judge(id, name) : id \in InputIds, name \in InputNames}

InputProjects == {Project(id, name) : id \in InputIds, name \in InputNames}

InitValidate ==
  /\ judges \in SeqsUpTo(InputJudges, MaxInput)
  /\ projects \in SeqsUpTo(InputProjects, MaxInput)
  /\ pc = "validate"
  /\ result = NoResult
  /\ strategy = Unused
  /\ judge_amount_min = Unused
  /\ allocations = Unused
  /\ i = Unused
  /\ j = Unused
  /\ judges_allocated = Unused
  /\ KeyIdle
  /\ CallIdle
  /\ ScoreIdle
  /\ TimeIdle
  /\ SheetIdle

\* input.validate()
Validate ==
  /\ pc = "validate"
  /\ Return(InputValidate(judges, projects))
  /\ UNCHANGED <<strategy, judges, projects, judge_amount_min, allocations,
                 i, j, judges_allocated, keyVars, callVars, scoreVars, timeVars,
                 sheetVars>>

NextValidate == Validate

SpecValidate == InitValidate /\ [][NextValidate]_vars

----------------------------------------------------------------------------
(* u32 arithmetic.  A u32 is kept as two 16-bit halves, value =            *)
(* hi * 2^16 + lo, so that the whole range 0 .. 2^32 - 1 is represented.   *)

Half == 65536

\* The u32 of a number below 2^31.
U32(n) == [hi |-> n \div Half, lo |-> n % Half]

U32Max == [hi |-> Half - 1, lo |-> Half - 1]

\* a + b in u32: the wrapped sum, and whether the true sum exceeds u32::MAX.
U32Add(a, b) ==
  LET lo == a.lo + b.lo
      hi == a.hi + b.hi + lo \div Half
  IN  [value |-> [hi |-> hi % Half, lo |-> lo % Half], overflow |-> hi >= Half]

\* a / m and a % m for a divisor m below 2^15 (the quotient is a number
\* below 2^31 when m >= 3).
U32Div(a, m) == (a.hi \div m) * Half + ((a.hi % m) * Half + a.lo) \div m

U32Rem(a, m) == ((a.hi % m) * Half + a.lo) % m

\* n as u8
AsU8(n) == n % 256

----------------------------------------------------------------------------
(* Time (time.rs)                                                          *)

MaxTotal == 3000

TimeOf(hour, minute) == [hour |-> hour, minute |-> minute]

\* Time::new
TimeNew(hour, minute) ==
  IF hour < 24 /\ minute < 60
    THEN [kind |-> "Ok", time |-> TimeOf(hour, minute)]
    ELSE Err("InvalidTime")

\* Time::to_minutes
ToMinutesBase24(t) == U32(t.hour * 24 + t.minute)

ToMinutes(t) == U32(t.hour * 60 + t.minute)

\* Time::from_minutes
FromMinutesNoWrap(t) ==
  TimeOf(AsU8(U32Div(t, 60)), AsU8(U32Rem(t, 60)))

FromMinutes(t) ==
  TimeOf(AsU8(U32Div(t, 60) % 24), AsU8(U32Rem(t, 60)))

\* The decimal digits of n, most significant first.
RECURSIVE Decimal(_)
Decimal(n) ==
  LET digit == <<"0", "1", "2", "3", "4", "5", "6", "7", "8", "9">>[(n % 10) + 1]
  IN  IF n < 10 THEN <<digit>> ELSE Append(Decimal(n \div 10), digit)

\* {:02}: at least two digits, padded with zeros.
Pad2(n) == IF n < 10 THEN <<"0">> \o Decimal(n) ELSE Decimal(n)

\* Time::format
TimeFormat(t) == Pad2(t.hour) \o <<":">> \o Pad2(t.minute)

\* u8 arguments of Time::new: every hour up to 24, every minute up to 60,
\* and the largest u8.
Hours == 0..24 \cup {255}

Minutes == 0..60 \cup {255}

\* u32 arguments of from_minutes: from 0 over two days, and the top of the range.
Totals ==
  {U32(n) : n \in 0..MaxTotal} \cup
  {[hi |-> Half - 1, lo |-> Half - 1 - n] : n \in 0..60}

\* Two chains of conversions.  The first builds a Time with Time::new,
\* converts it to minutes and back; the second converts a count of minutes
\* to a Time and back.
InitTime ==
  /\ \/ /\ pc = "time_new"
        /\ origin \in {TimeOf(h, m) : h \in Hours, m \in Minutes}
     \/ /\ pc = "minutes_given"
        /\ origin \in Totals
  /\ time = Unused
  /\ total = IF pc = "minutes_given" THEN origin ELSE Unused
  /\ result = NoResult
  /\ strategy = Unused
  /\ judges = Unused
  /\ projects = Unused
  /\ judge_amount_min = Unused
  /\ allocations = Unused
  /\ i = Unused
  /\ j = Unused
  /\ judges_allocated = Unused
  /\ KeyIdle
  /\ CallIdle
  /\ ScoreIdle
  /\ SheetIdle

TimeRest ==
  UNCHANGED <<strategy, judges, projects, judge_amount_min, allocations, i, j,
              judges_allocated, origin, keyVars, callVars, scoreVars, sheetVars>>

\* Time::new(hour, minute)
TimeNewCall ==
  /\ pc = "time_new"
  /\ LET r == TimeNew(origin.hour, origin.minute) IN
       IF r.kind = "Ok"
         THEN /\ time' = r.time
              /\ pc' = "time_built"
              /\ UNCHANGED result
         ELSE /\ Return(r)
              /\ UNCHANGED time
  /\ UNCHANGED total
  /\ TimeRest

\* t.to_minutes()
ToMinutesCall ==
  /\ pc \in {"time_built", "time_from_minutes"}
  /\ total' = ToMinutes(time)
  /\ pc' = IF pc = "time_built" THEN "minutes_of_time" ELSE "minutes_back"
  /\ UNCHANGED <<time, result>>
  /\ TimeRest

\* Time::from_minutes(total)
FromMinutesCall ==
  /\ pc \in {"minutes_of_time", "minutes_given"}
  /\ time' = FromMinutes(total)
  /\ pc' = IF pc = "minutes_of_time" THEN "time_back" ELSE "time_from_minutes"
  /\ UNCHANGED <<total, result>>
  /\ TimeRest

NextTime ==
  \/ TimeNewCall
  \/ ToMinutesCall
  \/ FromMinutesCall

SpecTime == InitTime /\ [][NextTime]_vars

----------------------------------------------------------------------------
(* Judge worksheet (spreadsheet.rs, write_judge_sheet)                     *)

MaxRows == 3

\* config.start_time: times that Time::new accepts.
StartTimes == {TimeOf(0, 0), TimeOf(9, 0), TimeOf(23, 55), TimeOf(23, 59)}

\* config.judge_time: u32.
JudgeTimes ==
  {U32(0), U32(5), U32(1439), U32(1440), U32(1441),
   [hi |-> Half \div 2, lo |-> 0], U32Max}

\* allocation.projects
SheetProjects(m) == [n \in 1..m |-> Project(n, "P")]

\* overflow_checks is the build setting: `+=` on u32 panics on overflow when
\* it is on (debug profile) and wraps modulo 2^32 when it is off (release).
InitSheet ==
  /\ sheet_config \in [judge_time : JudgeTimes, start_time : StartTimes]
  /\ projects \in {SheetProjects(m) : m \in 0..MaxRows}
  /\ overflow_checks \in BOOLEAN
  /\ current_minutes = U32(0)
  /\ worksheet = <<>>
  /\ i = 0
  /\ pc = "sheet_start"
  /\ result = NoResult
  /\ strategy = Unused
  /\ judges = Unused
  /\ judge_amount_min = Unused
  /\ allocations = Unused
  /\ j = Unused
  /\ judges_allocated = Unused
  /\ KeyIdle
  /\ CallIdle
  /\ ScoreIdle
  /\ TimeIdle

SheetRest ==
  UNCHANGED <<strategy, judges, projects, judge_amount_min, allocations, j,
              judges_allocated, sheet_config, overflow_checks, keyVars, callVars,
              scoreVars, timeVars>>

\* let mut current_minutes = config.start_time.to_minutes();
SheetStart ==
  /\ pc = "sheet_start"
  /\ current_minutes' = ToMinutes(sheet_config.start_time)
  /\ pc' = "sheet_row"
  /\ UNCHANGED <<i, worksheet, result>>
  /\ SheetRest

\* One iteration of the loop over allocation.projects: the row is written,
\* then current_minutes += config.judge_time.
SheetRow ==
  /\ pc = "sheet_row"
  /\ i < Len(projects)
  /\ LET project == projects[i + 1]
         at      == FromMinutes(current_minutes)
         sum     == U32Add(current_minutes, sheet_config.judge_time)
     IN  /\ worksheet' = Append(worksheet,
                                [row |-> i + 1, project |-> project.name,
                                 time |-> TimeFormat(at), table |-> project.id])
         /\ IF sum.overflow /\ overflow_checks
              THEN /\ pc' = "panic"
                   /\ UNCHANGED current_minutes
              ELSE /\ pc' = "sheet_row"
                   /\ current_minutes' = sum.value
  /\ i' = i + 1
  /\ UNCHANGED result
  /\ SheetRest

\* Ok(())
SheetReturn ==
  /\ pc = "sheet_row"
  /\ i >= Len(projects)
  /\ Return(OkUnit)
  /\ UNCHANGED <<i, current_minutes, worksheet>>
  /\ SheetRest

NextSheet ==
  \/ SheetStart
  \/ SheetRow
  \/ SheetReturn

SpecSheet == InitSheet /\ [][NextSheet]_vars

----------------------------------------------------------------------------
(* Scoring (scoring.rs)                                                    *)

\* f64 values: the rational num / den in lowest terms with den > 0, and NaN
\* written 0 / 0.  The weights of the model are small integers or NaN, so
\* every sum is exact in f64 and two averages with different exact values
\* are different f64 values.
F64(n) == [num |-> n, den |-> 1]

NaN == [num |-> 0, den |-> 0]

IsNaN(x) == x.den = 0

RECURSIVE Gcd(_, _)
Gcd(a, b) == IF b = 0 THEN a ELSE Gcd(b, a % b)

Reduce(n, d) ==
  LET g == Gcd(IF n < 0 THEN -n ELSE n, d)
  IN  [num |-> n \div g, den |-> d \div g]

\* a + b on f64
F64Add(a, b) ==
  IF IsNaN(a) \/ IsNaN(b)
    THEN NaN
    ELSE Reduce(a.num * b.den + b.num * a.den, a.den * b.den)

\* a / (n as f64), n >= 1
F64Div(a, n) == IF IsNaN(a) THEN NaN ELSE Reduce(a.num, a.den * n)

\* f64::partial_cmp
PartialCmp(a, b) ==
  IF IsNaN(a) \/ IsNaN(b) THEN "None"
  ELSE IF a.num * b.den < b.num * a.den THEN "Less"
  ELSE IF a.num * b.den = b.num * a.den THEN "Equal"
  ELSE "Greater"

\* String::cmp: strings are sequences of bytes, compared lexicographically.
RECURSIVE StrCmp(_, _)
StrCmp(a, b) ==
  IF a = <<>> /\ b = <<>> THEN "Equal"
  ELSE IF a = <<>> THEN "Less"
  ELSE IF b = <<>> THEN "Greater"
  ELSE IF Head(a) < Head(b) THEN "Less"
  ELSE IF Head(a) > Head(b) THEN "Greater"
  ELSE StrCmp(Tail(a), Tail(b))

Score(project_name, score) == [project_name |-> project_name, score |-> score]

Orders == {"ScoreAsc", "ScoreDesc", "ProjectNameAsc", "ProjectNameDesc"}

Modes == {"Average", "Total"}

ScorerConfig(order, mode) == [order |-> order, mode |-> mode]

\* ScoreTable::default
EmptyTable == [name \in {} |-> 0]

\* ScoreTable::add
TableAddLast(table, project_name, score) ==
  (project_name :> [score |-> score, count |-> 1]) @@ table

TableAdd(table, project_name, score) ==
  IF project_name \in DOMAIN table
    THEN [table EXCEPT ![project_name] =
            [score |-> F64Add(@.score, score), count |-> @.count + 1]]
    ELSE table @@ (project_name :> [score |-> F64Add(F64(0), score), count |-> 1])

None == [some |-> FALSE]

Some(v) == [some |-> TRUE, value |-> v]

\* ScoreTable::get_total_score
GetTotalScore(table, project_name) ==
  IF project_name \in DOMAIN table
    THEN Some(table[project_name].score)
    ELSE None

\* ScoreTable::get_average_score
GetAverageScore(table, project_name) ==
  IF project_name \in DOMAIN table
    THEN LET e == table[project_name]
         IN  Some(IF e.count = 0 THEN F64(0) ELSE F64Div(e.score, e.count))
    ELSE None

\* ScoreTable::to_scores
RECURSIVE ToScoresAll(_, _, _)
ToScoresAll(table, ps, cfg) ==
  IF ps = <<>> THEN <<>>
  ELSE LET project == Head(ps)
           got == IF cfg.mode = "Average"
                    THEN GetAverageScore(table, project.name)
                    ELSE GetTotalScore(table, project.name)
       IN  <<Score(project.name, IF got.some THEN got.value ELSE F64(0))>>
             \o ToScoresAll(table, Tail(ps), cfg)

RECURSIVE ToScoresById(_, _, _)
ToScoresById(table, ps, cfg) ==
  IF ps = <<>> THEN <<>>
  ELSE LET project == Head(ps)
           got == IF cfg.mode = "Average"
                    THEN GetAverageScore(table, project.id)
                    ELSE GetTotalScore(table, project.id)
       IN  (IF got.some THEN <<Score(project.name, got.value)>> ELSE <<>>)
             \o ToScoresById(table, Tail(ps), cfg)

RECURSIVE ToScores(_, _, _)
ToScores(table, ps, cfg) ==
  IF ps = <<>> THEN <<>>
  ELSE LET project == Head(ps)
           got == IF cfg.mode = "Average"
                    THEN GetAverageScore(table, project.name)
                    ELSE GetTotalScore(table, project.name)
       IN  (IF got.some THEN <<Score(project.name, got.value)>> ELSE <<>>)
             \o ToScores(table, Tail(ps), cfg)

\* The inner loop of score(): the entries of one decision, in order.  An
\* entry is <<project_name, rank>>.
RECURSIVE AddRanksCountingUnmapped(_, _, _)
AddRanksCountingUnmapped(table, ranks, weights) ==
  IF ranks = <<>> THEN table
  ELSE LET project_name == Head(ranks)[1]
           rank == Head(ranks)[2]
       IN  AddRanksCountingUnmapped(
             TableAdd(table, project_name,
                      IF rank \in DOMAIN weights THEN weights[rank] ELSE F64(0)),
             Tail(ranks), weights)

RECURSIVE AddRanks(_, _, _)
AddRanks(table, ranks, weights) ==
  IF ranks = <<>> THEN table
  ELSE LET project_name == Head(ranks)[1]
           rank == Head(ranks)[2]
       IN  AddRanks(IF rank \in DOMAIN weights
                      THEN TableAdd(table, project_name, weights[rank])
                      ELSE table,
                    Tail(ranks), weights)

\* The closures given to sort_by, one per Order.
CompareAscending(order, a, b) ==
  CASE order = "ScoreAsc"        -> PartialCmp(a.score, b.score)
    [] order = "ScoreDesc"       -> PartialCmp(a.score, b.score)
    [] order = "ProjectNameAsc"  -> StrCmp(a.project_name, b.project_name)
    [] order = "ProjectNameDesc" -> StrCmp(a.project_name, b.project_name)

Compare(order, a, b) ==
  CASE order = "ScoreAsc"        -> PartialCmp(a.score, b.score)
    [] order = "ScoreDesc"       -> PartialCmp(b.score, a.score)
    [] order = "ProjectNameAsc"  -> StrCmp(a.project_name, b.project_name)
    [] order = "ProjectNameDesc" -> StrCmp(b.project_name, a.project_name)

\* slice::sort_by is a stable sort: x goes before the first element it is
\* Less than, so it stays behind the elements it compares Equal to.
RECURSIVE InsertBeforeEqual(_, _, _)
InsertBeforeEqual(order, x, sorted) ==
  IF sorted = <<>> THEN <<x>>
  ELSE IF Compare(order, x, Head(sorted)) # "Greater" THEN <<x>> \o sorted
  ELSE <<Head(sorted)>> \o InsertBeforeEqual(order, x, Tail(sorted))

RECURSIVE Insert(_, _, _)
Insert(order, x, sorted) ==
  IF sorted = <<>> THEN <<x>>
  ELSE IF Compare(order, x, Head(sorted)) = "Less" THEN <<x>> \o sorted
  ELSE <<Head(sorted)>> \o Insert(order, x, Tail(sorted))

RECURSIVE SortBy(_, _)
SortBy(order, list) ==
  IF list = <<>> THEN <<>>
  ELSE Insert(order, list[Len(list)], SortBy(order, SubSeq(list, 1, Len(list) - 1)))

\* partial_cmp(..).unwrap() panics when either score is NaN; sorting two or
\* more elements compares every element at least once.
SortPanics(order, list) ==
  /\ order \in {"ScoreAsc", "ScoreDesc"}
  /\ Len(list) >= 2
  /\ \E n \in 1..Len(list) : IsNaN(list[n].score)

Panic == [kind |-> "panic"]

OkScores(list) == [kind |-> "Ok", scores |-> list]

\* The two checks at the head of score(); NoResult when both pass.
ScorePrecheckProjectsFirst(weights, ps) ==
  IF ps = <<>> THEN Err("ErrNoProjects")
  ELSE IF DOMAIN weights = {} THEN Err("ErrNoRankWeights")
  ELSE NoResult

ScorePrecheck(weights, ps) ==
  IF DOMAIN weights = {} THEN Err("ErrNoRankWeights")
  ELSE IF ps = <<>> THEN Err("ErrNoProjects")
  ELSE NoResult

\* Inputs.  Names and ids are byte strings: "a", "ab", "b", "c", ...
NameA == <<97>>

NameAB == <<97, 98>>

NameB == <<98>>

NameC == <<99>>

NameD == <<100>>

NameE == <<101>>

\* Projects whose ids differ from their names; the first two carry each
\* other's name as id.
ScoreProjectPool ==
  {Project(NameB, NameA), Project(NameA, NameB), Project(NameC, NameAB)}

MaxScoreProjects == 2

MaxDecisions == 2

Ranks == {1, 2}

\* rank_weights: HashMap<u32, f64>
WeightMaps ==
  { EmptyTable,
    (1 :> F64(3)),
    (2 :> F64(0)),
    (1 :> F64(3)) @@ (2 :> F64(2)),
    (1 :> F64(-2)) @@ (2 :> F64(2)),
    (1 :> F64(3)) @@ (2 :> NaN) }

StackRankDecision(judge_id, ranks) == [judge_id |-> judge_id, ranks |-> ranks]

\* Decisions of at most one entry, naming a project of the pool by name.
RankLists ==
  {<<>>} \cup {<<<<name, rank>>>> : name \in {NameA, NameAB, NameB}, rank \in Ranks}

DecisionLists ==
  UNION {{[d \in 1..n |-> StackRankDecision(d, rs[d])] : rs \in [1..n -> RankLists]} :
         n \in 0..MaxDecisions}

\* The inputs of test_stack_rank_scorer_score and of
\* test_stack_rank_scorer_score_complex.
TestWeights == (1 :> F64(3)) @@ (2 :> F64(2)) @@ (3 :> F64(1))

\* "project " followed by the id
TestName(id) == <<112, 114, 111, 106, 101, 99, 116, 32>> \o id

TestProject(id) == Project(id, TestName(id))

TestProjects == <<TestProject(NameA), TestProject(NameB), TestProject(NameC)>>

TestDecisions ==
  <<StackRankDecision(1, <<<<TestName(NameA), 1>>, <<TestName(NameB), 2>>,
                           <<TestName(NameC), 3>>>>),
    StackRankDecision(2, <<<<TestName(NameB), 1>>, <<TestName(NameC), 2>>,
                           <<TestName(NameA), 3>>>>)>>

ComplexProjects == TestProjects \o <<TestProject(NameD), TestProject(NameE)>>

ComplexDecisions ==
  TestDecisions \o
    <<StackRankDecision(3, <<<<TestName(NameD), 1>>, <<TestName(NameC), 2>>,
                             <<TestName(NameA), 3>>>>)>>

\* StackRankScorer::new(config, judge_stack_decisions, projects, rank_weights)
InitScore ==
  /\ \/ /\ rank_weights \in WeightMaps
        /\ judge_stack_decisions \in DecisionLists
        /\ projects \in SeqsUpTo(ScoreProjectPool, MaxScoreProjects)
     \/ /\ rank_weights = TestWeights
        /\ judge_stack_decisions = TestDecisions
        /\ projects = TestProjects
     \/ /\ rank_weights = TestWeights
        /\ judge_stack_decisions = ComplexDecisions
        /\ projects = ComplexProjects
  /\ config \in {ScorerConfig(order, mode) : order \in Orders, mode \in Modes}
  /\ results = EmptyTable
  /\ scores = <<>>
  /\ i = 1
  /\ pc = "score"
  /\ result = NoResult
  /\ strategy = Unused
  /\ judges = Unused
  /\ judge_amount_min = Unused
  /\ allocations = Unused
  /\ j = Unused
  /\ judges_allocated = Unused
  /\ KeyIdle
  /\ CallIdle
  /\ TimeIdle
  /\ SheetIdle

ScoreRest ==
  UNCHANGED <<strategy, judges, projects, judge_amount_min, allocations, j,
              judges_allocated, rank_weights, judge_stack_decisions, config,
              keyVars, callVars, timeVars, sheetVars>>

\* The checks of rank_weights and projects, then ScoreTable::default().
ScoreStart ==
  /\ pc = "score"
  /\ LET checked == ScorePrecheck(rank_weights, projects) IN
       IF checked = NoResult
         THEN /\ pc' = "score_decisions"
              /\ UNCHANGED result
         ELSE Return(checked)
  /\ UNCHANGED <<i, results, scores>>
  /\ ScoreRest

\* One iteration of `for decision in &self.judge_stack_decisions`.
ScoreDecision ==
  /\ pc = "score_decisions"
  /\ i <= Len(judge_stack_decisions)
  /\ results' = AddRanks(results, judge_stack_decisions[i].ranks, rank_weights)
  /\ i' = i + 1
  /\ UNCHANGED <<pc, scores, result>>
  /\ ScoreRest

\* let scores = results.to_scores(self.projects.clone(), self.config.clone());
ScoreToScores ==
  /\ pc = "score_decisions"
  /\ i > Len(judge_stack_decisions)
  /\ scores' = ToScores(results, projects, config)
  /\ pc' = "score_sort"
  /\ UNCHANGED <<i, results, result>>
  /\ ScoreRest

\* match self.config.order: sort_by and Ok(Scores::new(sorted_scores)).
ScoreSort ==
  /\ pc = "score_sort"
  /\ IF SortPanics(config.order, scores)
       THEN /\ pc' = "panic"
            /\ result' = Panic
       ELSE Return(OkScores(SortBy(config.order, scores)))
  /\ UNCHANGED <<i, results, scores>>
  /\ ScoreRest

NextScore ==
  \/ ScoreStart
  \/ ScoreDecision
  \/ ScoreToScores
  \/ ScoreSort

SpecScore == InitScore /\ [][NextScore]_vars

\* score() once more: the properties of the emitted list (ties, omitted
\* projects, unmatched keys) are checked in a run of their own.
SpecScoreOutput == InitScore /\ [][NextScore]_vars

----------------------------------------------------------------------------
(* ScoreTable on its own: a caller making add calls on an empty table.     *)

MaxAdds == 4

TableKeys == {NameA, NameAB, NameB}

TableWeights == {F64(3), F64(-2), F64(0), NaN}

\* ScoreTable::default()
InitTable ==
  /\ results = EmptyTable
  /\ calls = <<>>
  /\ pc = "table"
  /\ command = Unused
  /\ workbook = Unused
  /\ previous = NoResult
  /\ rank_weights = Unused
  /\ judge_stack_decisions = Unused
  /\ config = Unused
  /\ scores = Unused
  /\ strategy = Unused
  /\ judges = Unused
  /\ projects = Unused
  /\ judge_amount_min = Unused
  /\ allocations = Unused
  /\ i = Unused
  /\ j = Unused
  /\ judges_allocated = Unused
  /\ result = Unused
  /\ KeyIdle
  /\ TimeIdle
  /\ SheetIdle

\* table.add(project_name, score)
TableAddCall ==
  /\ pc = "table"
  /\ Len(calls) < MaxAdds
  /\ \E project_name \in TableKeys, score \in TableWeights :
       /\ results' = TableAdd(results, project_name, score)
       /\ calls' = Append(calls, <<project_name, score>>)
  /\ UNCHANGED <<strategy, judges, projects, judge_amount_min, pc, allocations,
                 i, j, judges_allocated, result, keyVars, command, workbook,
                 previous, rank_weights, judge_stack_decisions, config, scores,
                 timeVars, sheetVars>>

NextTable == TableAddCall

SpecTable == InitTable /\ [][NextTable]_vars

----------------------------------------------------------------------------
(* A second call on the same instance.  SequenceFairAllocator,             *)
(* PresentationAllocator and StackRankScorer are called through &self: the *)
(* fields stay, the locals of allocate() and score() are new in each call. *)

AgainWeights ==
  {TestWeights, (1 :> F64(3)) @@ (2 :> F64(2)), (1 :> F64(3)) @@ (2 :> NaN)}

InitAgain ==
  \/ /\ Init
     /\ strategy \in {"sequence", "presentation"}
  \/ /\ InitScore
     /\ rank_weights \in AgainWeights

\* allocator.allocate() once more
AllocateAgain ==
  /\ pc = "done"
  /\ strategy \in {"sequence", "presentation"}
  /\ previous = NoResult
  /\ previous' = result
  /\ result' = NoResult
  /\ allocations' = <<>>
  /\ i' = 0
  /\ j' = 0
  /\ judges_allocated' = 0
  /\ pc' = "start"
  /\ UNCHANGED <<strategy, judges, projects, judge_amount_min, keyVars,
                 command, workbook, calls, scoreVars, timeVars, sheetVars>>

\* scorer.score() once more; `let mut results = ScoreTable::default();`
ScoreAgainKeepsTable ==
  /\ pc \in {"done", "panic"}
  /\ strategy = Unused
  /\ previous = NoResult
  /\ previous' = result
  /\ result' = NoResult
  /\ scores' = <<>>
  /\ i' = 1
  /\ pc' = "score"
  /\ UNCHANGED <<strategy, judges, projects, judge_amount_min, allocations, j,
                 judges_allocated, rank_weights, judge_stack_decisions, config,
                 results, keyVars, command, workbook, calls, timeVars,
                 sheetVars>>

ScoreAgain ==
  /\ pc \in {"done", "panic"}
  /\ strategy = Unused
  /\ previous = NoResult
  /\ previous' = result
  /\ result' = NoResult
  /\ results' = EmptyTable
  /\ scores' = <<>>
  /\ i' = 1
  /\ pc' = "score"
  /\ UNCHANGED <<strategy, judges, projects, judge_amount_min, allocations, j,
                 judges_allocated, rank_weights, judge_stack_decisions, config,
                 keyVars, command, workbook, calls, timeVars, sheetVars>>

NextAgain ==
  \/ SequenceFair
  \/ Presentation
  \/ NextScore
  \/ AllocateAgain
  \/ ScoreAgain

SpecAgain == InitAgain /\ [][NextAgain]_vars

----------------------------------------------------------------------------
(* The command line (judgers-cli): cli::run, handle_allocate and           *)
(* handle_spreadsheet.  Each reads the input file into an Input, builds an *)
(* allocator with from_str and calls allocate().                           *)

Commands == {"run", "handle_allocate", "handle_spreadsheet"}

\* AllocationConfig::default().judge_amount_min, Config::default().judge_amount_min
DefaultJudgeAmountMin == 3

\* The judge_amount_min that handle_spreadsheet gives AllocationConfig::new.
SpreadsheetJudgeAmountMin == 3

IdChars == <<"a", "b", "c", "d", "e">>

CliJudge(n) == Judge(<<IdChars[n]>>, <<"n", IdChars[n]>>)

CliProject(n) == Project(<<IdChars[n]>>, <<"p", IdChars[n]>>)

\* The judges of the input file: well-formed lists, a list with a blank id
\* and lists with a repeated id.
CliJudgeLists ==
  {[n \in 1..m |-> CliJudge(n)] : m \in 0..MaxJudges} \cup
  { <<Judge(<<" ">>, <<"n">>)>>,
    <<CliJudge(1), CliJudge(1)>>,
    <<CliJudge(1), CliJudge(2), CliJudge(1)>> }

CliProjectLists ==
  {[n \in 1..m |-> CliProject(n)] : m \in 0..MaxProjects} \cup
  { <<Project(<<" ">>, <<"p">>)>>,
    <<CliProject(1), CliProject(1)>> }

\* The --judge argument: absent, or a count.
JudgeCounts == {None} \cup {Some(n) : n \in 0..MaxAmount}

\* SpreadsheetConfig::default() and a configuration read from config_path.
SpreadsheetConfigs ==
  {[judge_time |-> U32(10), start_time |-> TimeOf(9, 0)],
   [judge_time |-> U32(0), start_time |-> TimeOf(23, 55)]}

\* The command, its arguments and the parsed input file.  The allocation
\* configuration starts as its default.
InitCli ==
  /\ command \in Commands
  /\ allocator \in IF command = "handle_spreadsheet" THEN {Unused} ELSE Keys
  /\ sheet_config \in
       IF command = "handle_spreadsheet" THEN SpreadsheetConfigs ELSE {Unused}
  /\ judges \in CliJudgeLists
  /\ projects \in CliProjectLists
  /\ judge_amount_min = DefaultJudgeAmountMin
  /\ strategy = Unused
  /\ workbook = "none"
  /\ calls = Unused
  /\ previous = NoResult
  /\ pc = "cli"
  /\ allocations = <<>>
  /\ i = 0
  /\ j = 0
  /\ judges_allocated = 0
  /\ result = NoResult
  /\ current_minutes = Unused
  /\ worksheet = Unused
  /\ overflow_checks = Unused
  /\ ScoreIdle
  /\ TimeIdle

CliRest ==
  UNCHANGED <<judges, projects, allocations, i, j, judges_allocated, result,
              keyVars, command, calls, previous, scoreVars, timeVars,
              sheetVars>>

\* cli::run, subcommand allocate: the --judge count replaces the default
\* judge_amount_min, and the input goes to from_str.
CliRun ==
  /\ pc = "cli"
  /\ command = "run"
  /\ \E count \in JudgeCounts :
       judge_amount_min' = IF count.some THEN count.value ELSE judge_amount_min
  /\ strategy' = FromStr(allocator)
  /\ pc' = "start"
  /\ UNCHANGED workbook
  /\ CliRest

\* handle_allocate
HandleAllocate ==
  /\ pc = "cli"
  /\ command = "handle_allocate"
  /\ \E count \in JudgeCounts :
       judge_amount_min' = IF count.some THEN count.value ELSE judge_amount_min
  /\ strategy' = FromStr(allocator)
  /\ pc' = "start"
  /\ UNCHANGED workbook
  /\ CliRest

HandleSpreadsheetRandom ==
  /\ pc = "cli"
  /\ command = "handle_spreadsheet"
  /\ judge_amount_min' = SpreadsheetJudgeAmountMin
  /\ strategy' = FromStr("random")
  /\ pc' = "start"
  /\ UNCHANGED workbook
  /\ CliRest

\* handle_spreadsheet: from_str("sequence", AllocationConfig::new(3, ..), ..)
HandleSpreadsheet ==
  /\ pc = "cli"
  /\ command = "handle_spreadsheet"
  /\ judge_amount_min' = SpreadsheetJudgeAmountMin
  /\ strategy' = FromStr("sequence")
  /\ pc' = "start"
  /\ UNCHANGED workbook
  /\ CliRest

\* After allocate(): an Err is returned as it is (`?`, `Err(e) => Err(e)`);
\* on Ok the allocations are printed or, in handle_spreadsheet,
\* Spreadsheet::from_allocations is run, which may fail.
CliReturn ==
  /\ pc = "done"
  /\ pc' = "exit"
  /\ IF command = "handle_spreadsheet" /\ result.kind = "Ok"
       THEN workbook' \in {"written", "failed"}
       ELSE UNCHANGED workbook
  /\ UNCHANGED <<strategy, judge_amount_min>>
  /\ CliRest

\* What the command returns.
Returned ==
  IF result.kind # "Ok" THEN result
  ELSE IF workbook = "failed" THEN Err("ErrFailedToCreateSpreadsheet")
  ELSE OkUnit

NextCli ==
  \/ CliRun
  \/ HandleAllocate
  \/ HandleSpreadsheet
  \/ Next
  \/ CliReturn

SpecCli == InitCli /\ [][NextCli]_vars

----------------------------------------------------------------------------
(* Vocabulary of the properties.                                           *)

Done(s) == pc = "done" /\ strategy = s

Min(a, b) == IF a < b THEN a ELSE b

\* ceil(x / y) for x >= 0, y >= 1: the least n with n * y >= x.
CeilDiv(x, y) == CHOOSE n \in 0..x : n * y >= x /\ (n - 1) * y < x

UniqueIds(ps) ==
  \A m, n \in 1..Len(ps) : m # n => ps[m].id # ps[n].id

Distinct(ps) ==
  \A m, n \in 1..Len(ps) : m # n => ps[m] # ps[n]

Holds(list, p) == \E n \in 1..Len(list) : list[n] = p

\* The number of allocations whose list holds p.
Coverage(allocs, p) ==
  Cardinality({a \in 1..Len(allocs) : Holds(allocs[a].projects, p)})

----------------------------------------------------------------------------
(* Properties of RandomFairAllocator                                       *)

\* C1: RandomFair, projects with pairwise-unique ids: every Ok result holds
\* each input project in exactly judge_amount_min allocations, and no
\* judge's list holds a project twice.
C1_RandomFairExactCoverage ==
  (Done("random") /\ result.kind = "Ok" /\ UniqueIds(projects)) =>
    /\ \A p \in 1..Len(projects) :
         Coverage(result.allocations, projects[p]) = judge_amount_min
    /\ \A a \in 1..Len(result.allocations) :
         Distinct(result.allocations[a].projects)

C1_Witness ==
  /\ Done("random")
  /\ result.kind = "Ok"
  /\ UniqueIds(projects)
  /\ Len(projects) = 3
  /\ Len(judges) = 3
  /\ judge_amount_min = 2
  /\ Len(result.allocations[1].projects) = 3

\* C2: RandomFair, judge_amount_min <= judge count, any project list: while
\* the current project still needs a judge, some judge can accept it (the
\* retry loop is never left without an index whose draw makes progress).
C2_RandomFairNeverStuck ==
  (pc = "random_while" /\ judges_allocated < judge_amount_min) =>
    \E index \in 0..(Len(allocations) - 1) :
      ~Holds(allocations[index + 1].projects, projects[i + 1])

----------------------------------------------------------------------------
(* Errors of the two fair allocators                                       *)

\* C3: RandomFair and SequenceFair return ErrNoJudges when judges is empty,
\* else ErrNoProjects when projects is empty, else ErrNotEnoughJudges with
\* the two counts and the configured minimum when judge_amount_min exceeds
\* the judge count, else Ok.
C3_FairErrors ==
  (pc = "done" /\ strategy \in {"random", "sequence"}) =>
    IF judges = <<>> THEN result = [kind |-> "ErrNoJudges"]
    ELSE IF projects = <<>> THEN result = [kind |-> "ErrNoProjects"]
    ELSE IF judge_amount_min > Len(judges)
      THEN result = [kind |-> "ErrNotEnoughJudges",
                     judge_count |-> Len(judges),
                     project_count |-> Len(projects),
                     judge_amount_min |-> judge_amount_min]
    ELSE result.kind = "Ok"

C3_Witness ==
  /\ Done("random")
  /\ judges = <<>>
  /\ projects = <<>>
  /\ judge_amount_min > 0
  /\ result.kind = "ErrNoJudges"

----------------------------------------------------------------------------
(* Properties of SequenceFairAllocator                                     *)

\* C4: SequenceFair, on success with J judges, P projects, k the minimum:
\* the judge at index a receives exactly the projects at indices
\* (floor(a*P/J) + n) mod P for n = 0 .. min(ceil(P*k/J), P) - 1, in this order.
C4_SequenceFairIndices ==
  (Done("sequence") /\ result.kind = "Ok") =>
    LET J == Len(judges)
        P == Len(projects)
        count == Min(CeilDiv(P * judge_amount_min, J), P)
    IN  \A a \in 0..(J - 1) :
          result.allocations[a + 1].projects =
            [n \in 1..count |-> projects[(((a * P) \div J + (n - 1)) % P) + 1]]

C4_Witness ==
  /\ Done("sequence")
  /\ result.kind = "Ok"
  /\ Len(judges) = 3
  /\ Len(projects) = 3
  /\ Distinct(projects)
  /\ judge_amount_min = 2
  /\ result.allocations[3].projects = <<projects[3], projects[1]>>

\* C5: SequenceFair, on success: every judge's list has exactly
\* ceil(P*k/J) projects, and the inner loop never meets j >= P.
C5_SequenceFairEqualLoad ==
  /\ (Done("sequence") /\ result.kind = "Ok") =>
       \A a \in 1..Len(result.allocations) :
         Len(result.allocations[a].projects) =
           CeilDiv(Len(projects) * judge_amount_min, Len(judges))
  /\ (pc = "sequence_project" /\ j < projects_per_judge) => j < Len(projects)

C5_Witness ==
  /\ Done("sequence")
  /\ result.kind = "Ok"
  /\ Len(judges) = 3
  /\ Len(projects) = 2
  /\ judge_amount_min = 2
  /\ \A a \in 1..3 : Len(result.allocations[a].projects) = 2

\* C6: SequenceFair, on success with pairwise-distinct projects: every
\* project is in the lists of at least judge_amount_min judges.
C6_SequenceFairCoverage ==
  (Done("sequence") /\ result.kind = "Ok" /\ Distinct(projects)) =>
    \A p \in 1..Len(projects) :
      Coverage(result.allocations, projects[p]) >= judge_amount_min

C6_Witness ==
  /\ Done("sequence")
  /\ result.kind = "Ok"
  /\ Distinct(projects)
  /\ Len(judges) = 2
  /\ Len(projects) = 3
  /\ judge_amount_min = 1
  /\ Coverage(result.allocations, projects[2]) = 2

\* No two judges hold the same project at the same position of their lists.
Staggered(allocs) ==
  \A a, b \in 1..Len(allocs) :
    a # b =>
      \A n \in 1..Min(Len(allocs[a].projects), Len(allocs[b].projects)) :
        allocs[a].projects[n] # allocs[b].projects[n]

----------------------------------------------------------------------------
(* Properties of PresentationAllocator                                     *)

\* C8: Presentation: every judge's list is the whole project list in input
\* order, whatever judge_amount_min is; with no projects every list is empty.
C8_PresentationCompleteList ==
  (Done("presentation") /\ result.kind = "Ok") =>
    \A a \in 1..Len(result.allocations) :
      result.allocations[a].projects = projects

C8_Witness ==
  /\ Done("presentation")
  /\ result.kind = "Ok"
  /\ Len(judges) = 2
  /\ Len(projects) = 3
  /\ judge_amount_min = 3
  /\ result.allocations[2].projects = projects

\* C9: Presentation returns Ok for every input; with no judges the Ok
\* result holds no allocation.
C9_PresentationNeverErrs ==
  Done("presentation") =>
    /\ result.kind = "Ok"
    /\ judges = <<>> => result.allocations = <<>>

C9_Witness ==
  /\ Done("presentation")
  /\ judges = <<>>
  /\ projects = <<>>
  /\ result = [kind |-> "Ok", allocations |-> <<>>]

----------------------------------------------------------------------------
(* Shape of every result                                                   *)

\* C10: every Ok result of any strategy has one allocation per input judge,
\* in input order, also for judges whose list is empty.
C10_OneAllocationPerJudge ==
  (pc = "done" /\ result.kind = "Ok") =>
    /\ Len(result.allocations) = Len(judges)
    /\ \A n \in 1..Len(judges) : result.allocations[n].judge = judges[n]

C10_Witness ==
  /\ Done("random")
  /\ result.kind = "Ok"
  /\ judges = <<Judge(2, "J2"), Judge(1, "J1")>>
  /\ judge_amount_min = 0
  /\ Len(projects) = 2
  /\ result.allocations[1] = [judge |-> Judge(2, "J2"), projects |-> <<>>]

----------------------------------------------------------------------------
(* Properties of <dyn Allocator>::from_str                                 *)

\* C11: from_str builds RandomFair for "random", SequenceFair for
\* "sequence", Presentation for "presentation" and RandomFair for every
\* other key; under an unrecognized key allocate() returns the errors of
\* RandomFair in their order and, for unique ids, covers every project
\* exactly judge_amount_min times.
C11_FromStrDefaultsToRandom ==
  /\ pc # "from_str" =>
       strategy = IF allocator = "sequence" THEN "sequence"
                  ELSE IF allocator = "presentation" THEN "presentation"
                  ELSE "random"
  /\ (pc = "done" /\ allocator \notin {"random", "sequence", "presentation"}) =>
       /\ IF judges = <<>> THEN result = [kind |-> "ErrNoJudges"]
          ELSE IF projects = <<>> THEN result = [kind |-> "ErrNoProjects"]
          ELSE IF judge_amount_min > Len(judges)
            THEN result = [kind |-> "ErrNotEnoughJudges",
                           judge_count |-> Len(judges),
                           project_count |-> Len(projects),
                           judge_amount_min |-> judge_amount_min]
          ELSE result.kind = "Ok"
       /\ (result.kind = "Ok" /\ UniqueIds(projects)) =>
            \A p \in 1..Len(projects) :
              Coverage(result.allocations, projects[p]) = judge_amount_min

C11_Witness ==
  /\ pc = "done"
  /\ allocator = "Sequence"
  /\ strategy = "random"
  /\ result.kind = "Ok"
  /\ UniqueIds(projects)
  /\ Len(projects) = 2
  /\ Len(judges) = 3
  /\ judge_amount_min = 2

----------------------------------------------------------------------------
(* Properties of Input::validate                                           *)

\* A string without a character that is not whitespace.
Blank(str) == \A n \in 1..Len(str) : str[n] \in {" ", "\t"}

\* The first entry of list with a blank id or a blank name, 0 when none.
FirstMalformed(list) ==
  LET bad == {n \in 1..Len(list) : Blank(list[n].id) \/ Blank(list[n].name)}
  IN  IF bad = {} THEN 0 ELSE CHOOSE n \in bad : \A m \in bad : n <= m

SharesId(list) ==
  \E m, n \in 1..Len(list) : m # n /\ list[m].id = list[n].id

\* C12: validate returns the error of the first failing check, in the
\* order: no judges, no projects, the first judge with a blank id or (its id
\* being fine) a blank name, two judges sharing an id, the same two checks
\* on projects; Ok only when no check fails.  Two judges or two projects
\* sharing an id are never accepted.
C12_ValidateOrder ==
  pc = "done" =>
    /\ result.kind =
         IF judges = <<>> THEN "ErrNoJudges"
         ELSE IF projects = <<>> THEN "ErrNoProjects"
         ELSE IF FirstMalformed(judges) # 0
           THEN IF Blank(judges[FirstMalformed(judges)].id)
                  THEN "ErrInvalidJudgeId" ELSE "ErrInvalidJudgeName"
         ELSE IF SharesId(judges) THEN "ErrDuplicateJudgeIds"
         ELSE IF FirstMalformed(projects) # 0
           THEN IF Blank(projects[FirstMalformed(projects)].id)
                  THEN "ErrInvalidProjectId" ELSE "ErrInvalidProjectName"
         ELSE IF SharesId(projects) THEN "ErrDuplicateProjectIds"
         ELSE "Ok"
    /\ (SharesId(judges) \/ SharesId(projects)) => result.kind # "Ok"

C12_Witness ==
  /\ pc = "done"
  /\ Len(judges) = 2
  /\ judges[1].id = <<"a">>
  /\ judges[2].id = <<"a">>
  /\ Len(projects) = 2
  /\ projects[1].id = <<" ">>
  /\ result.kind = "ErrDuplicateJudgeIds"

----------------------------------------------------------------------------
(* Properties of Time                                                      *)

\* C18: for every Time t that Time::new accepts (hour < 24, minute < 60),
\* Time::from_minutes(t.to_minutes()) is t.
C18_TimeRoundTrip ==
  /\ pc = "time_back" => time = origin
  /\ pc = "time_built" => (origin.hour < 24 /\ origin.minute < 60)
  /\ (pc = "done" /\ result.kind = "InvalidTime") =>
       (origin.hour >= 24 \/ origin.minute >= 60)

C18_Witness ==
  /\ pc = "time_back"
  /\ origin = [hour |-> 23, minute |-> 59]
  /\ total = [hi |-> 0, lo |-> 1439]
  /\ time = [hour |-> 23, minute |-> 59]

\* 2^16 * hi + lo modulo 1440.
Mod1440(u) == ((65536 % 1440) * u.hi + u.lo) % 1440

\* C19: for every u32 total, Time::from_minutes(total) has hour < 24 and
\* minute < 60, and its to_minutes() is total modulo 1440.
C19_FromMinutesWraps ==
  /\ pc = "time_from_minutes" => (time.hour < 24 /\ time.minute < 60)
  /\ pc = "minutes_back" =>
       (total.hi = 0 /\ total.lo = Mod1440(origin))

C19_Witness ==
  /\ pc = "minutes_back"
  /\ origin = [hi |-> 65535, lo |-> 65535]
  /\ time = [hour |-> 4, minute |-> 15]
  /\ total = [hi |-> 0, lo |-> 255]

----------------------------------------------------------------------------
(* Properties of the judge worksheet                                       *)

\* The time of day, as HH:MM, that is m minutes after midnight (m < 1440).
TimeOfDay(m) ==
  LET d == <<"0", "1", "2", "3", "4", "5", "6", "7", "8", "9">>
      h == m \div 60
      n == m % 60
  IN  <<d[(h \div 10) + 1], d[(h % 10) + 1], ":", d[(n \div 10) + 1], d[(n % 10) + 1]>>

\* (start_time.to_minutes() + index * judge_time) mod 1440
Scheduled(index) ==
  ((sheet_config.start_time.hour * 60 + sheet_config.start_time.minute)
     + index * Mod1440(sheet_config.judge_time)) % 1440

\* C20: the time written for the project at 0-based position index is the
\* time of day (start_time.to_minutes() + index * judge_time) mod 1440.
C20_WorksheetSchedule ==
  \A n \in 1..Len(worksheet) : worksheet[n].time = TimeOfDay(Scheduled(n - 1))

\* The schedule while start + index * judge_time stays within u32: no
\* panic, every row at its scheduled time, one row per project.
C20_ScheduleWithoutOverflow ==
  sheet_config.judge_time.hi < Half \div 2 =>
    /\ pc # "panic"
    /\ \A n \in 1..Len(worksheet) : worksheet[n].time = TimeOfDay(Scheduled(n - 1))
    /\ pc = "done" => Len(worksheet) = Len(projects)

----------------------------------------------------------------------------
(* Properties of StackRankScorer.score                                     *)

ScoreEnded == pc \in {"done", "panic"}

ScoreOk == pc = "done" /\ result.kind = "Ok"

\* What the claim expects of score(): the error kinds in their order, Ok otherwise.
ExpectedKind ==
  IF DOMAIN rank_weights = {} THEN "ErrNoRankWeights"
  ELSE IF Len(projects) = 0 THEN "ErrNoProjects"
  ELSE "Ok"

\* C13 as stated: score returns ErrNoRankWeights whenever the weight map is
\* empty, ErrNoProjects when the weight map is non-empty and the project
\* list is empty, and Ok in every other case.
C13_ScoreErrors == ScoreEnded => result.kind = ExpectedKind

\* C13 amended: the same when no weight is NaN.
C13_ScoreErrorsFiniteWeights ==
  (ScoreEnded /\ \A r \in DOMAIN rank_weights : rank_weights[r].den # 0) =>
    result.kind = ExpectedKind

\* Ok with an empty output: two decisions, neither of which has an entry
\* with a mapped rank.
C13_Witness ==
  /\ pc = "done"
  /\ result = [kind |-> "Ok", scores |-> <<>>]
  /\ Len(projects) = 2
  /\ Len(judge_stack_decisions) = 2
  /\ Len(judge_stack_decisions[1].ranks) = 1
  /\ \A r \in DOMAIN rank_weights : rank_weights[r].den # 0

\* The positions <<d, e>> of all decision entries.
EntryPositions ==
  UNION {{<<d, e>> : e \in 1..Len(judge_stack_decisions[d].ranks)} :
         d \in 1..Len(judge_stack_decisions)}

EntryAt(pos) == judge_stack_decisions[pos[1]].ranks[pos[2]]

\* The entries naming `name` whose rank is a key of the weight map.
Contributions(name) ==
  {pos \in EntryPositions :
     EntryAt(pos)[1] = name /\ EntryAt(pos)[2] \in DOMAIN rank_weights}

WeightAt(pos) == rank_weights[EntryAt(pos)[2]]

\* The sum of the (integer) weights of a set of entries.
RECURSIVE WeightSum(_)
WeightSum(S) ==
  IF S = {} THEN 0
  ELSE LET pos == CHOOSE x \in S : TRUE
       IN  WeightAt(pos).num + WeightSum(S \ {pos})

\* v is (the sum of the weights of S) / n; the sum is NaN when a weight is.
IsQuotient(v, S, n) ==
  IF \E pos \in S : WeightAt(pos).den = 0
    THEN v.den = 0
    ELSE v.den > 0 /\ v.num * n = WeightSum(S) * v.den

\* C14: every score of the output is, in Average mode, the sum of
\* weights[rank] over the entries naming the project with a mapped rank,
\* divided by the number of those entries, and in Total mode that sum.
C14_ScoreValue ==
  ScoreOk =>
    \A n \in 1..Len(result.scores) :
      LET s == result.scores[n]
          S == Contributions(s.project_name)
      IN  /\ S # {}
          /\ IsQuotient(s.score, S,
                        IF config.mode = "Average" THEN Cardinality(S) ELSE 1)

\* weights {1:3, 2:2, 3:1}, J1:[a:1,b:2,c:3], J2:[b:1,c:2,a:3] in the default
\* configuration (Average, ScoreDesc): b = 2.5, a = 2.0, c = 1.5.
C14_Witness ==
  /\ pc = "done"
  /\ rank_weights = (1 :> [num |-> 3, den |-> 1]) @@ (2 :> [num |-> 2, den |-> 1])
                      @@ (3 :> [num |-> 1, den |-> 1])
  /\ Len(judge_stack_decisions) = 2
  /\ config = [order |-> "ScoreDesc", mode |-> "Average"]
  /\ result = [kind |-> "Ok", scores |->
       <<[project_name |-> <<112, 114, 111, 106, 101, 99, 116, 32, 98>>,
          score |-> [num |-> 5, den |-> 2]],
         [project_name |-> <<112, 114, 111, 106, 101, 99, 116, 32, 97>>,
          score |-> [num |-> 2, den |-> 1]],
         [project_name |-> <<112, 114, 111, 106, 101, 99, 116, 32, 99>>,
          score |-> [num |-> 3, den |-> 2]]>>]

\* C15: in Average mode the output has a Score for a project of the list
\* exactly when some entry naming it has a mapped rank; the other projects
\* are left out.
C15_AverageOmitsUnranked ==
  (ScoreOk /\ config.mode = "Average") =>
    /\ \A n \in 1..Len(projects) :
         (\E m \in 1..Len(result.scores) :
            result.scores[m].project_name = projects[n].name)
           <=> Contributions(projects[n].name) # {}
    /\ Len(result.scores) =
         Cardinality({n \in 1..Len(projects) : Contributions(projects[n].name) # {}})

\* Five projects of which one is never ranked: four scores.
C15_Witness ==
  /\ pc = "done"
  /\ config.mode = "Average"
  /\ Len(projects) = 5
  /\ result.kind = "Ok"
  /\ Len(result.scores) = 4
  /\ \A m \in 1..4 : result.scores[m].project_name # projects[5].name

\* The names used by the decision entries.
EntryNames == {EntryAt(pos)[1] : pos \in EntryPositions}

\* A decision list without the entry at pos.
WithoutEntry(pos) ==
  [d \in 1..Len(judge_stack_decisions) |->
     IF d # pos[1] THEN judge_stack_decisions[d]
     ELSE LET ranks == judge_stack_decisions[d].ranks
          IN  [judge_stack_decisions[d] EXCEPT
                 !.ranks = SubSeq(ranks, 1, pos[2] - 1)
                             \o SubSeq(ranks, pos[2] + 1, Len(ranks))]]

\* score() as one function of its inputs.
RECURSIVE AddDecisions(_, _, _)
AddDecisions(table, decisions, weights) ==
  IF decisions = <<>> THEN table
  ELSE AddDecisions(AddRanks(table, Head(decisions).ranks, weights),
                    Tail(decisions), weights)

ScoreResult(weights, decisions, ps, cfg) ==
  LET checked == ScorePrecheck(weights, ps)
      list    == ToScores(AddDecisions(EmptyTable, decisions, weights), ps, cfg)
  IN  IF checked # NoResult THEN checked
      ELSE IF SortPanics(cfg.order, list) THEN Panic
      ELSE OkScores(SortBy(cfg.order, list))

\* C16: an entry whose rank is not a key of the weight map adds nothing to
\* the sum or to the count of any project, and the result of score() is the
\* result score() gives with that entry removed.
C16_UnmappedRankIgnored ==
  /\ pc = "score_sort" =>
       /\ DOMAIN results = {name \in EntryNames : Contributions(name) # {}}
       /\ \A name \in DOMAIN results :
            /\ results[name].count = Cardinality(Contributions(name))
            /\ IsQuotient(results[name].score, Contributions(name), 1)
  /\ ScoreEnded =>
       \A pos \in EntryPositions :
         EntryAt(pos)[2] \notin DOMAIN rank_weights =>
           result = ScoreResult(rank_weights, WithoutEntry(pos), projects, config)

\* Weights {1:3}; "a" is ranked 1 by one judge and 2 by another: its average is 3.
C16_Witness ==
  /\ pc = "done"
  /\ DOMAIN rank_weights = {1}
  /\ Len(judge_stack_decisions) = 2
  /\ judge_stack_decisions[1].ranks = <<<<(<<97>>), 1>>>>
  /\ judge_stack_decisions[2].ranks = <<<<(<<97>>), 2>>>>
  /\ config.mode = "Average"
  /\ result = [kind |-> "Ok", scores |->
       <<[project_name |-> <<97>>, score |-> [num |-> 3, den |-> 1]]>>]

\* a <= b on scores that are not NaN
ScoreLeq(a, b) == a.num * b.den <= b.num * a.den

\* a <= b in lexicographic order: a is a prefix of b, or a is smaller at the
\* first position where they differ.
NameLeq(a, b) ==
  \/ /\ Len(a) <= Len(b)
     /\ \A k \in 1..Len(a) : a[k] = b[k]
  \/ \E k \in 1..Min(Len(a), Len(b)) :
       /\ a[k] < b[k]
       /\ \A m \in 1..(k - 1) : a[m] = b[m]

Occurrences(list, x) == Cardinality({n \in 1..Len(list) : list[n] = x})

\* C17: the output is ordered as config.order says, and it is a permutation
\* of the list to_scores returned.
C17_OutputOrdered ==
  ScoreOk =>
    /\ \A n \in 1..(Len(result.scores) - 1) :
         LET s == result.scores[n]
             t == result.scores[n + 1]
         IN  CASE config.order = "ScoreDesc" -> ScoreLeq(t.score, s.score)
               [] config.order = "ScoreAsc"  -> ScoreLeq(s.score, t.score)
               [] config.order = "ProjectNameAsc" ->
                    NameLeq(s.project_name, t.project_name)
               [] config.order = "ProjectNameDesc" ->
                    NameLeq(t.project_name, s.project_name)
    /\ Len(result.scores) = Len(scores)
    /\ \A n \in 1..Len(scores) :
         Occurrences(result.scores, scores[n]) = Occurrences(scores, scores[n])

\* to_scores returned "ab" then "b"; ProjectNameDesc puts "b" first.
C17_Witness ==
  /\ pc = "done"
  /\ config.order = "ProjectNameDesc"
  /\ result.kind = "Ok"
  /\ Len(scores) = 2
  /\ scores[1].project_name = <<97, 98>>
  /\ scores[2].project_name = <<98>>
  /\ result.scores = <<scores[2], scores[1]>>

\* The entries whose key is `id` and whose rank is a key of the weight map.
ContributionsById(id) ==
  {pos \in EntryPositions :
     EntryAt(pos)[1] = id /\ EntryAt(pos)[2] \in DOMAIN rank_weights}

\* The output has a Score called `name` whose value is the sum over S (in
\* Average mode divided by the number of entries of S).
Scored(name, S) ==
  \E m \in 1..Len(result.scores) :
    /\ result.scores[m].project_name = name
    /\ IsQuotient(result.scores[m].score, S,
                  IF config.mode = "Average" THEN Cardinality(S) ELSE 1)

\* C21 as stated: an entry (x, rank) with a mapped rank contributes to the
\* project whose id is x, so a project ranked under its id is in the output
\* with the contributions made under its id.
C21_KeyedById ==
  ScoreOk =>
    \A n \in 1..Len(projects) :
      ContributionsById(projects[n].id) # {} =>
        Scored(projects[n].name, ContributionsById(projects[n].id))

\* C21 amended: an entry (x, rank) with a mapped rank contributes to the
\* projects whose name is x; a project is in the output exactly when it is
\* ranked under its name, whatever its id.
C21_KeyedByName ==
  ScoreOk =>
    \A n \in 1..Len(projects) :
      IF Contributions(projects[n].name) # {}
        THEN Scored(projects[n].name, Contributions(projects[n].name))
        ELSE \A m \in 1..Len(result.scores) :
               result.scores[m].project_name # projects[n].name

----------------------------------------------------------------------------
(* Properties of ScoreTable                                                *)

\* The positions of the add calls made for `key`.
AddsFor(key) == {n \in 1..Len(calls) : calls[n][1] = key}

\* The sum of the (integer) weights of the calls at the positions of S.
RECURSIVE AddedSum(_)
AddedSum(S) ==
  IF S = {} THEN 0
  ELSE LET n == CHOOSE x \in S : TRUE
       IN  calls[n][2].num + AddedSum(S \ {n})

\* Every key added at least once has the entry (sum of the weights added
\* for it, number of its add calls); the other keys have no entry.
TableAccumulates ==
  /\ DOMAIN results = {key \in TableKeys : AddsFor(key) # {}}
  /\ \A key \in DOMAIN results :
       /\ results[key].count = Cardinality(AddsFor(key))
       /\ IF \E n \in AddsFor(key) : calls[n][2].den = 0
            THEN results[key].score.den = 0
            ELSE /\ results[key].score.den = 1
                 /\ results[key].score.num = AddedSum(AddsFor(key))

\* An add call leaves the entry, or the absence, of every other key as it was.
AddTouchesOwnKey ==
  calls' # calls =>
    \A key \in TableKeys \ {calls'[Len(calls')][1]} :
      /\ key \in DOMAIN results' <=> key \in DOMAIN results
      /\ key \in DOMAIN results => results'[key] = results[key]

\* C22: from an empty table, after any sequence of add calls, the entry of
\* every key added at least once is (sum of the weights added for it, number
\* of its add calls), keys never added have no entry, and each add changes
\* only the entry of its own key.
C22_TableAccumulates == []TableAccumulates /\ [][AddTouchesOwnKey]_vars

\* "a" added three times (3, -2, 3) and "b" once: a = (4, 3), b = (0, 1).
C22_Witness ==
  /\ pc = "table"
  /\ Len(calls) = 4
  /\ DOMAIN results = {<<97>>, <<98>>}
  /\ results[<<97>>] = [score |-> [num |-> 4, den |-> 1], count |-> 3]
  /\ results[<<98>>] = [score |-> [num |-> 0, den |-> 1], count |-> 1]

----------------------------------------------------------------------------
(* Further properties of StackRankScorer.score                             *)

\* Two scores compare equal under the key of config.order.
Tied(x, y) ==
  IF config.order \in {"ScoreAsc", "ScoreDesc"}
    THEN x.score = y.score
    ELSE x.project_name = y.project_name

OutputNames == [m \in 1..Len(result.scores) |-> result.scores[m].project_name]

ProjectNames == [n \in 1..Len(projects) |-> projects[n].name]

\* C25: scores that compare equal under the configured order key are in the
\* output in the order of their projects in the project list, for all four
\* orders.
C25_TiesKeepInputOrder ==
  ScoreOk =>
    \A m \in 1..Len(result.scores) :
      LET tied == {k \in 1..Len(result.scores) :
                     Tied(result.scores[m], result.scores[k])}
          names == {OutputNames[k] : k \in tied}
      IN  SelectSeq(OutputNames, LAMBDA name : name \in names)
            = SelectSeq(ProjectNames, LAMBDA name : name \in names)

\* Projects "b" then "a", both with score 3, ScoreDesc: "b" stays first.
C25_Witness ==
  /\ pc = "done"
  /\ config.order = "ScoreDesc"
  /\ result = [kind |-> "Ok", scores |->
       <<[project_name |-> <<98>>, score |-> [num |-> 3, den |-> 1]],
         [project_name |-> <<97>>, score |-> [num |-> 3, den |-> 1]]>>]

\* The names of an Ok result, as a set.
NamesOf(r) == {r.scores[m].project_name : m \in 1..Len(r.scores)}

\* C26: in Total mode a project without a contribution is left out, not
\* emitted with total 0, and the emitted projects are those of Average mode
\* for the same decisions and weights.
C26_TotalOmitsUnranked ==
  (ScoreOk /\ config.mode = "Total") =>
    /\ \A n \in 1..Len(projects) :
         projects[n].name \in NamesOf(result)
           <=> Contributions(projects[n].name) # {}
    /\ Len(result.scores) =
         Cardinality({n \in 1..Len(projects) : Contributions(projects[n].name) # {}})
    /\ LET average == ScoreResult(rank_weights, judge_stack_decisions, projects,
                                  [config EXCEPT !.mode = "Average"])
       IN  /\ average.kind = "Ok"
           /\ NamesOf(average) = NamesOf(result)
           /\ Len(average.scores) = Len(result.scores)

\* Five projects of which one is never ranked, Total mode: four totals.
C26_Witness ==
  /\ pc = "done"
  /\ config.mode = "Total"
  /\ Len(projects) = 5
  /\ result.kind = "Ok"
  /\ Len(result.scores) = 4
  /\ \A m \in 1..4 : result.scores[m].project_name # projects[5].name
  /\ \E m \in 1..4 : result.scores[m].score = [num |-> 5, den |-> 1]

\* C27: every name of an Ok result is the name of a project of the list,
\* the result is no longer than the list, and an entry whose key is the name
\* of no project is not in the output and changes nothing: the result is
\* the one score() gives without that entry.
C27_OutputWithinProjects ==
  /\ ScoreOk =>
       /\ \A m \in 1..Len(result.scores) :
            \E n \in 1..Len(projects) :
              projects[n].name = result.scores[m].project_name
       /\ Len(result.scores) <= Len(projects)
  /\ ScoreEnded =>
       \A pos \in EntryPositions :
         (\A n \in 1..Len(projects) : projects[n].name # EntryAt(pos)[1]) =>
           /\ result.kind = "Ok" => EntryAt(pos)[1] \notin NamesOf(result)
           /\ result = ScoreResult(rank_weights, WithoutEntry(pos), projects, config)

\* The only project is "ab" (id "c"); one judge ranks "a", another "ab".
C27_Witness ==
  /\ pc = "done"
  /\ projects = <<[id |-> <<99>>, name |-> <<97, 98>>]>>
  /\ Len(judge_stack_decisions) = 2
  /\ judge_stack_decisions[1].ranks = <<<<(<<97>>), 1>>>>
  /\ judge_stack_decisions[2].ranks = <<<<(<<97, 98>>), 1>>>>
  /\ 1 \in DOMAIN rank_weights
  /\ result.kind = "Ok"
  /\ Len(result.scores) = 1

----------------------------------------------------------------------------
(* Further properties of the allocators                                    *)

\* C28: RandomFair, projects pairwise distinct: in every Ok result each
\* judge's list is a subsequence of the input project list, i.e. two
\* projects of a list are in the order they have in the input.
C28_RandomFairKeepsInputOrder ==
  (Done("random") /\ result.kind = "Ok" /\ Distinct(projects)) =>
    \A a \in 1..Len(result.allocations) :
      LET list == result.allocations[a].projects
      IN  \A m, n \in 1..Len(list) :
            m < n =>
              \E x, y \in 1..Len(projects) :
                /\ x < y
                /\ projects[x] = list[m]
                /\ projects[y] = list[n]

C28_Witness ==
  /\ Done("random")
  /\ result.kind = "Ok"
  /\ Distinct(projects)
  /\ Len(projects) = 3
  /\ Len(judges) = 2
  /\ judge_amount_min = 1
  /\ result.allocations[1].projects = <<projects[1], projects[3]>>
  /\ result.allocations[2].projects = <<projects[2]>>

\* C30: judge_amount_min = 0 with judges and projects both non-empty:
\* RandomFair and SequenceFair return Ok with one allocation per judge and
\* every list empty, and RandomFair never draws.
C30_ZeroJudgesPerProject ==
  (judge_amount_min = 0 /\ judges # <<>> /\ projects # <<>>) =>
    /\ (pc = "done" /\ strategy \in {"random", "sequence"}) =>
         /\ result.kind = "Ok"
         /\ Len(result.allocations) = Len(judges)
         /\ \A a \in 1..Len(judges) :
              /\ result.allocations[a].judge = judges[a]
              /\ result.allocations[a].projects = <<>>
    /\ strategy = "random" => ~ENABLED RandomDraw

C30_Witness ==
  /\ Done("sequence")
  /\ judge_amount_min = 0
  /\ Len(judges) = 2
  /\ Len(projects) = 3
  /\ result.kind = "Ok"
  /\ Len(result.allocations) = 2
  /\ result.allocations[1].projects = <<>>
  /\ result.allocations[2].projects = <<>>

----------------------------------------------------------------------------
(* Determinism                                                             *)

\* The second call on an instance has returned what the first returned.
SameResultAgain ==
  (pc \in {"done", "panic"} /\ previous # NoResult) => result = previous

\* No step of a call writes a field of the instance.
FieldsKept ==
  /\ strategy' = strategy
  /\ judges' = judges
  /\ projects' = projects
  /\ judge_amount_min' = judge_amount_min
  /\ config' = config
  /\ judge_stack_decisions' = judge_stack_decisions
  /\ rank_weights' = rank_weights

C23_ValidatedBeforeAllocate ==
  (pc # "cli") => InputValidate(judges, projects).kind = "Ok"

\* C29: the spreadsheet command allocates with SequenceFair and
\* judge_amount_min 3 whatever its configuration; with one or two judges and
\* at least one project it returns ErrNotEnoughJudges and generates no
\* workbook; a workbook is generated only after allocate returned Ok.
C29_SpreadsheetUsesSequenceThree ==
  (command = "handle_spreadsheet") =>
    /\ (pc # "cli") => (strategy = "sequence" /\ judge_amount_min = 3)
    /\ (pc = "exit" /\ Len(judges) \in {1, 2} /\ Len(projects) >= 1) =>
         (Returned.kind = "ErrNotEnoughJudges" /\ workbook = "none")
    /\ (workbook # "none") => (pc = "exit" /\ result.kind = "Ok")

C29_Witness ==
  /\ command = "handle_spreadsheet"
  /\ pc = "exit"
  /\ sheet_config.judge_time = U32(0)
  /\ Len(judges) = 2
  /\ Len(projects) = 1
  /\ Returned.kind = "ErrNotEnoughJudges"
  /\ workbook = "none"

============================================================================
